---- MODULE Spec2Model ----
(***************************************************************************)
(* revprox: one invocation of update-config.py, the engine that refreshes  *)
(* the wildcard certificates and the generated nginx configuration of a    *)
(* reverse proxy from the declarative config.yml of a git checkout.        *)
(*                                                                         *)
(* The script is a straight-line program: storage check, fetch, renewal    *)
(* scan, config load, DNS provider construction, default provider          *)
(* selection, the per-domain loop, the top-level aggregate, validation and *)
(* restart.  Each of these steps is one action; the per-domain loop body   *)
(* is one action per iteration.  Results of the outside world (git, the    *)
(* ACME exchange, the file system, nginx -t, service) are chosen with \E.  *)
(* The part of config.yml a step reads is drawn when the step reads it:    *)
(* the file does not change during a run.                                  *)
(***************************************************************************)
EXTENDS Integers, Sequences, FiniteSets

(***************************************************************************)
(* Bounds of the model.                                                    *)
(***************************************************************************)
\* the day datetime.now() reads during the run
StartDay == 0
\* number of subdomains a domain declares
MaxSub == 1
\* validity, in days, of a certificate the ACME exchange hands out
IssueDays == 90

\* timedelta(weeks=+2), in days
TwoWeeks == 14

\* the domains of config.yml, in the order of the mapping
DomainOrder == <<"a.org", "b.org">>
Domains == {DomainOrder[i] : i \in 1..Len(DomainOrder)}
\* a certificate directory under certs/ that belongs to no domain of config.yml
Orphan == "old.org"
CertDirs == Domains \cup {Orphan}
\* the provider identifiers of the dns mapping of config.yml
ProviderIds == {"aws", "default"}
\* what constructing a declared provider does: it succeeds, its constructor
\* raises on its parameters, or its type is no known sewer.BaseDns subclass
ProviderKinds == {"good", "badconfig", "unknowntype"}
\* the values of a domain's optional dns key
DnsKeys == {"none", "aws", "default"}

VARIABLES
    pc,                 \* position of the script
    exit_status,        \* "running", "exit0", "fatal" (sys.exit(message)), "crash" (uncaught exception), "done"
    forced,             \* args.forced
    now,                \* datetime.now(), in days
    disk,               \* certs/<dir>/{certificate.crt, certificate.key, account.key}
    old_hash, new_hash, \* revision of the checkout before and after the fetch
    generate_config,
    renew_certificates,
    config_dns,         \* config['dns'], once read
    dns_providers,      \* identifiers of the constructed providers
    default_dns,
    cfg,                \* config['domains'][d], once read
    idx,                \* number of domains the loop has iterated over
    domain_names,
    attempts,           \* per domain: number of loop iterations started for it
    outcome,            \* per domain: how its iteration ended
    certop,             \* per domain: what get_certs did
    dns_used,           \* per domain: provider handed to get_certs
    dirs,               \* directories create_dir returned normally for in this run
    written,            \* files written in this run
    aggregate,          \* include lines of nginx/revprox.cfg as written in this run
    validation,         \* "pending", "passed" (no nginx executable, or nginx -t succeeded), "invalid"
    restart,            \* "pending", "noservice" (no `service` executable), "ok", "failed"
    checked,            \* the latest call of should_renew_cert made on its own: path, file, clock, result
    cert_call,          \* the latest call of get_certs made on its own: directory, files found, result, client
    rendered            \* the latest document built on its own or as rp_config (function, arguments,
                        \* clock, document), and the one built before it

vars == <<pc, exit_status, forced, now, disk, old_hash, new_hash, generate_config,
          renew_certificates, config_dns, dns_providers, default_dns, cfg, idx,
          domain_names, attempts, outcome, certop, dns_used, dirs, written,
          aggregate, validation, restart, checked, cert_call, rendered>>

(***************************************************************************)
(* Files.  A certificate file is its not-after day, a key file is the      *)
(* version of its content (0: as found, > 0: written in this run).         *)
(***************************************************************************)
NoFile == -1
OldKey == 0
NewKey == 1

\* the states a certificate directory is found in at the start of a run: empty,
\* or complete with a certificate that has one day less than two weeks, or
\* exactly two weeks, left
StoredNotAfter == {StartDay + TwoWeeks - 1, StartDay + TwoWeeks}
StoredStates ==
    {[crt |-> NoFile, key |-> NoFile, acct |-> NoFile]}
    \cup {[crt |-> t, key |-> OldKey, acct |-> OldKey] : t \in StoredNotAfter}

UnreadCfg == [ssl |-> "unread", dns |-> "none", nsub |-> 0]
\* ssl: "off" (no ssl or not enabled), "noemail" (enabled, no email), "email".
\* The dns key is read for a domain with ssl enabled and an email only.
DomainCfgs ==
    {c \in [ssl : {"off", "noemail", "email"}, dns : DnsKeys, nsub : {MaxSub}] :
        c.dns # "none" => c.ssl = "email"}

(***************************************************************************)
(* should_renew_cert: the file is read and parsed at the call.             *)
(***************************************************************************)
should_renew_cert_le(cert_file, clock) ==
    cert_file # NoFile /\ cert_file <= clock + TwoWeeks

should_renew_cert(cert_file, clock) ==
    IF cert_file # NoFile
    THEN LET expire_date == cert_file
             threshold == clock + TwoWeeks
         IN  expire_date < threshold
    ELSE FALSE

(***************************************************************************)
(* Exception handlers.  "SystemExit" is what sys.exit raises; it is a      *)
(* BaseException and no Exception.                                         *)
(***************************************************************************)
Exceptions == {"SystemExit", "Exception", "NameError", "TypeError", "OSError"}

\* `except Exception:` of get_certs
GetCertsCatches(e) == e # "SystemExit"

\* the bare `except:` of the provider loop
ProviderCatches(e) == e \in Exceptions

DomainCatchesNothing(e) == FALSE

DomainCatchesException(e) == e # "SystemExit"

\* the bare `except:` of the domain loop
DomainCatches(e) == e \in Exceptions

\* how the interpreter ends on an exception nothing catches
Uncaught(e) == IF e = "SystemExit" THEN "fatal" ELSE "crash"

ExitCode(status) == IF status \in {"exit0", "done"} THEN 0 ELSE 1

(***************************************************************************)
(* State at the start of a run.                                            *)
(***************************************************************************)
\* the states the orphan certificate directory is found in
OrphanStates == {st \in StoredStates : st.crt # StartDay + TwoWeeks}

NotCalled ==
    [dir |-> "", files |-> [crt |-> NoFile, key |-> NoFile, acct |-> NoFile], clock |-> 0,
     result |-> [ret |-> FALSE, exc |-> "none",
                 files |-> [crt |-> NoFile, key |-> NoFile, acct |-> NoFile], op |-> "none"],
     client |-> [created |-> FALSE, account_key |-> NoFile]]

\* arguments of a rendering call; destination and subdomain are those of
\* create_nginx_config_for_subdomain, subdomains and forward_others those of
\* create_nginx_config_for_domain
RenderArgs(domain, subdomain, destination, subdomains, forward_others, use_ssl, force_ssl) ==
    [domain |-> domain, subdomain |-> subdomain, destination |-> destination,
     subdomains |-> subdomains, forward_others |-> forward_others,
     use_ssl |-> use_ssl, force_ssl |-> force_ssl]

\* forward_others = None
None == "None"

\* a call: the function, its arguments, what cfg holds under 'forward_others'
\* ("absent": no such key), the clock at the call and the document returned
Call(fn, args, forward_cfg, clock, doc) ==
    [fn |-> fn, args |-> args, forward_cfg |-> forward_cfg, clock |-> clock, doc |-> doc]

NoCall == Call("none", RenderArgs("", "", "", <<>>, None, FALSE, FALSE), "absent", 0, <<>>)

\* a call, with the call before it
RenderedCall(call, last) ==
    [fn |-> call.fn, args |-> call.args, forward_cfg |-> call.forward_cfg,
     clock |-> call.clock, doc |-> call.doc,
     prev |-> Call(last.fn, last.args, last.forward_cfg, last.clock, last.doc)]

NotRendered == RenderedCall(NoCall, NoCall)

NotChecked == [path |-> "none", file |-> NoFile, clock |-> StartDay, result |-> FALSE]

\* nothing of the run has happened yet
Fresh ==
    /\ exit_status = "running"
    /\ old_hash = 0
    /\ new_hash = 0
    /\ generate_config = FALSE
    /\ renew_certificates = FALSE
    /\ config_dns = [p \in ProviderIds |-> "unread"]
    /\ dns_providers = {}
    /\ default_dns = "default"
    /\ cfg = [d \in Domains |-> UnreadCfg]
    /\ idx = 0
    /\ domain_names = <<>>
    /\ attempts = [d \in Domains |-> 0]
    /\ outcome = [d \in Domains |-> "pending"]
    /\ certop = [d \in Domains |-> "none"]
    /\ dns_used = [d \in Domains |-> "none"]
    /\ dirs = {}
    /\ written = {}
    /\ aggregate = <<>>
    /\ validation = "pending"
    /\ restart = "pending"
    /\ checked = NotChecked
    /\ cert_call = NotCalled
    /\ rendered = NotRendered

Init ==
    /\ pc = "storage"
    /\ forced \in BOOLEAN
    /\ now = StartDay
    /\ disk \in {f \in [CertDirs -> StoredStates] : f[Orphan] \in OrphanStates}
    /\ Fresh

\* sys.exit(...) or an uncaught exception at the top level of the script
Exit(status) ==
    /\ pc' = "exit"
    /\ exit_status' = status

(***************************************************************************)
(* The storage directory must exist, be a directory, readable, writable.   *)
(***************************************************************************)
CheckStorage ==
    /\ pc = "storage"
    /\ UNCHANGED <<checked, cert_call, rendered>>
    /\ \E usable \in BOOLEAN :
          IF usable
          THEN pc' = "fetch" /\ UNCHANGED exit_status
          ELSE Exit("fatal")
    /\ UNCHANGED <<forced, now, disk, old_hash, new_hash, generate_config,
                   renew_certificates, config_dns, dns_providers, default_dns, cfg,
                   idx, domain_names, attempts, outcome, certop, dns_used, dirs,
                   written, aggregate, validation, restart>>

(***************************************************************************)
(* Fetch and hard reset of the checkout, then generate_config.             *)
(***************************************************************************)
GenerateConfigChangeOnly(args_forced, old, new) == old # new

GenerateConfig(args_forced, old, new) ==
    IF old # new THEN TRUE ELSE args_forced

Fetch ==
    /\ pc = "fetch"
    /\ UNCHANGED <<checked, cert_call, rendered>>
    /\ \E h \in {old_hash, old_hash + 1} :
          /\ new_hash' = h
          /\ generate_config' = GenerateConfig(forced, old_hash, h)
    /\ pc' = "scan"
    /\ UNCHANGED <<exit_status, forced, now, disk, old_hash,
                   renew_certificates, config_dns, dns_providers, default_dns, cfg,
                   idx, domain_names, attempts, outcome, certop, dns_used, dirs,
                   written, aggregate, validation, restart>>

(***************************************************************************)
(* Quick scan of certs/**/*.crt, skipped when generate_config is set.      *)
(***************************************************************************)
\* cert_path.glob('**/*.crt')
GlobCrt(files) == {c \in DOMAIN files : files[c].crt # NoFile}

ScanFindsAnyCert(files, clock) == GlobCrt(files) # {}

ScanFindsHealthyCert(files, clock) ==
    \E c \in GlobCrt(files) : ~should_renew_cert(files[c].crt, clock)

ScanFindsRenewal(files, clock) ==
    \E c \in GlobCrt(files) : should_renew_cert(files[c].crt, clock)

Scan ==
    /\ pc = "scan"
    /\ UNCHANGED <<checked, cert_call, rendered>>
    /\ IF ~generate_config
       THEN LET found == ScanFindsRenewal(disk, now)
            IN  /\ renew_certificates' = found
                /\ IF ~found
                   THEN Exit("exit0")
                   ELSE pc' = "load" /\ UNCHANGED exit_status
       ELSE /\ pc' = "load"
            /\ UNCHANGED <<exit_status, renew_certificates>>
    /\ UNCHANGED <<forced, now, disk, old_hash, new_hash, generate_config,
                   config_dns, dns_providers, default_dns, cfg,
                   idx, domain_names, attempts, outcome, certop, dns_used, dirs,
                   written, aggregate, validation, restart>>

(***************************************************************************)
(* config.yml: missing, not YAML, empty, or loaded.                        *)
(***************************************************************************)
LoadConfig ==
    /\ pc = "load"
    /\ UNCHANGED <<checked, cert_call, rendered>>
    /\ \E file \in {"ok", "missing", "yamlerror", "empty"} :
          IF file = "ok"
          THEN pc' = "providers" /\ UNCHANGED exit_status
          ELSE Exit("fatal")
    /\ UNCHANGED <<forced, now, disk, old_hash, new_hash, generate_config,
                   renew_certificates, config_dns, dns_providers, default_dns, cfg,
                   idx, domain_names, attempts, outcome, certop, dns_used, dirs,
                   written, aggregate, validation, restart>>

(***************************************************************************)
(* The provider loop: sys.exit on an unknown type and the constructor's    *)
(* exception are both raised inside the try of the loop body.              *)
(***************************************************************************)
ProviderRaises(kind) ==
    CASE kind = "good" -> "none"
      [] kind = "badconfig" -> "Exception"
      [] kind = "unknowntype" -> "SystemExit"

\* the providers whose exception leaves the loop
ProviderEscapes(dns) ==
    {p \in DOMAIN dns : ProviderRaises(dns[p]) # "none" /\ ~ProviderCatches(ProviderRaises(dns[p]))}

Providers ==
    /\ pc = "providers"
    /\ UNCHANGED <<checked, cert_call, rendered>>
    /\ \E dns \in [ProviderIds -> ProviderKinds] :
          /\ config_dns' = dns
          /\ dns_providers' = {p \in ProviderIds : dns[p] = "good"}
          /\ IF ProviderEscapes(dns) = {}
             THEN pc' = "default" /\ UNCHANGED exit_status
             ELSE Exit("fatal")
    /\ UNCHANGED <<forced, now, disk, old_hash, new_hash, generate_config,
                   renew_certificates, default_dns, cfg,
                   idx, domain_names, attempts, outcome, certop, dns_used, dirs,
                   written, aggregate, validation, restart>>

(***************************************************************************)
(* default_dns.  dns_providers.keys()[0] indexes a dict view, which raises *)
(* TypeError at the top level of the script.                               *)
(***************************************************************************)
KeysIndex0(keys) == [exc |-> "TypeError", value |-> "default"]

SelectDefault(providers) ==
    IF "default" \in providers
    THEN [exc |-> "none", value |-> "default"]
    ELSE IF Cardinality(providers) > 0
         THEN KeysIndex0(providers)
         ELSE [exc |-> "SystemExit", value |-> "default"]

DefaultDns ==
    /\ pc = "default"
    /\ UNCHANGED <<checked, cert_call, rendered>>
    /\ LET sel == SelectDefault(dns_providers)
       IN  /\ default_dns' = sel.value
           /\ IF sel.exc = "none"
              THEN pc' = "domains" /\ UNCHANGED exit_status
              ELSE Exit(Uncaught(sel.exc))
    /\ UNCHANGED <<forced, now, disk, old_hash, new_hash, generate_config,
                   renew_certificates, config_dns, dns_providers, cfg,
                   idx, domain_names, attempts, outcome, certop, dns_used, dirs,
                   written, aggregate, validation, restart>>

(***************************************************************************)
(* get_certs(domain, cert_dir, dns_class, email) on the files st of        *)
(* cert_dir.  mkdir is the outcome of its create_dir ("none" or the        *)
(* exception it raises), acme the outcome of sewer's client ("ok" or the   *)
(* exception it raises).  exc is the exception that leaves get_certs.      *)
(***************************************************************************)
AcmeOutcomes == {"ok", "Exception"}

CertResult(ret, exc, files, op) ==
    [ret |-> ret, exc |-> exc, files |-> files, op |-> op]

\* what `except Exception:` makes of an exception raised in the try block
GetCertsExcept(e, files, op) ==
    IF GetCertsCatches(e)
    THEN CertResult(FALSE, "none", files, op)
    ELSE CertResult(FALSE, e, files, op)

CertificateExists(st) == st.crt # NoFile

\* `cert_file.exists() and cert_key_file.exists() and account_key_file.exists()`
AllThreeExist(st) == st.crt # NoFile /\ st.key # NoFile /\ st.acct # NoFile

\* account_key as handed to sewer.Client: the content of account.key when the
\* three files exist, None (NoFile) otherwise
account_key_read(st) == IF AllThreeExist(st) THEN st.acct ELSE NoFile

\* the files after the writes that follow a successful exchange
WrittenFilesAlwaysNewAccount(st, clock, account_key) ==
    [crt |-> clock + IssueDays, key |-> NewKey, acct |-> NewKey]

WrittenFiles(st, clock, account_key) ==
    [crt |-> clock + IssueDays,
     key |-> NewKey,
     acct |-> IF account_key = NoFile THEN NewKey ELSE st.acct]

\* wfile: which of the writes after the exchange raises on open() (0:
\* none, 1: certificate.crt, 2: certificate.key, 3: account.key); the write
\* of account.key is made only when account_key is None
WriteRaises(wfile, account_key) ==
    wfile \in {1, 2} \/ (wfile = 3 /\ account_key = NoFile)

\* the files when write wfile raised: the ones before it are written
PartlyWritten(st, clock, wfile) ==
    [crt |-> IF wfile > 1 THEN clock + IssueDays ELSE st.crt,
     key |-> IF wfile > 2 THEN NewKey ELSE st.key,
     acct |-> st.acct]

get_certs_always_exchanges(st, clock, mkdir, acme, wfile) ==
    LET complete == AllThreeExist(st)
        renew == IF complete THEN should_renew_cert(st.crt, clock) ELSE FALSE
        issued == WrittenFiles(st, clock, account_key_read(st))
    IN  IF mkdir # "none"
        THEN GetCertsExcept(mkdir, st, "none")
        ELSE IF acme # "ok"
        THEN GetCertsExcept(acme, st, IF complete THEN "renew_failed" ELSE "issue_failed")
        ELSE IF WriteRaises(wfile, account_key_read(st))
        THEN GetCertsExcept("OSError", PartlyWritten(st, clock, wfile),
                            IF complete THEN "renew_partial" ELSE "issue_partial")
        ELSE CertResult(TRUE, "none", issued, IF complete THEN "renew" ELSE "issue")

get_certs_writes_before_exchange(st, clock, mkdir, acme, wfile) ==
    LET complete == AllThreeExist(st)
        renew == IF complete THEN should_renew_cert(st.crt, clock) ELSE FALSE
        issued == WrittenFiles(st, clock, account_key_read(st))
    IN  IF mkdir # "none"
        THEN GetCertsExcept(mkdir, st, "none")
        ELSE IF complete /\ ~renew
        THEN CertResult(TRUE, "none", st, "noop")
        ELSE IF acme # "ok"
        THEN GetCertsExcept(acme, [st EXCEPT !.crt = NoFile],
                            IF renew THEN "renew_failed" ELSE "issue_failed")
        ELSE IF WriteRaises(wfile, account_key_read(st))
        THEN GetCertsExcept("OSError", PartlyWritten(st, clock, wfile),
                            IF renew THEN "renew_partial" ELSE "issue_partial")
        ELSE CertResult(TRUE, "none", issued, IF renew THEN "renew" ELSE "issue")

get_certs(st, clock, mkdir, acme, wfile) ==
    LET complete == AllThreeExist(st)
        renew == IF complete THEN should_renew_cert(st.crt, clock) ELSE FALSE
        issued == WrittenFiles(st, clock, account_key_read(st))
    IN  IF mkdir # "none"
        THEN GetCertsExcept(mkdir, st, "none")
        ELSE IF complete /\ ~renew
        THEN CertResult(TRUE, "none", st, "noop")
        ELSE IF acme # "ok"
        THEN GetCertsExcept(acme, st, IF renew THEN "renew_failed" ELSE "issue_failed")
        ELSE IF WriteRaises(wfile, account_key_read(st))
        THEN GetCertsExcept("OSError", PartlyWritten(st, clock, wfile),
                            IF renew THEN "renew_partial" ELSE "issue_partial")
        ELSE CertResult(TRUE, "none", issued, IF renew THEN "renew" ELSE "issue")

\* the files of cert_dir written by a call that ended in op, its write wfile
\* having raised when op says so
CertWrites(d, op, wfile) ==
    IF op \in {"issue", "renew"}
    THEN {<<"crt", d, 0>>, <<"key", d, 0>>}
         \cup (IF op = "issue" THEN {<<"acct", d, 0>>} ELSE {})
    ELSE IF op \in {"issue_partial", "renew_partial"}
    THEN (IF wfile > 1 THEN {<<"crt", d, 0>>} ELSE {})
         \cup (IF wfile > 2 THEN {<<"key", d, 0>>} ELSE {})
    ELSE {}

(***************************************************************************)
(* One iteration of the domain loop, for domain d with entry c of          *)
(* config['domains'].  dirfail: which of the four create_dir calls exits   *)
(* (0: none; 1..3: the loop's own, 4: the one of get_certs).  wfail: which *)
(* nginx.dumpf raises (0: none; k <= nsub: subdomain k; nsub + 1: main).   *)
(***************************************************************************)
DomainDirs(d) == <<(<<"certs", d>>), (<<"nginx", d>>), (<<"subdomains", d>>)>>

PreparedDirs(d, dirfail) ==
    {DomainDirs(d)[i] : i \in {j \in 1..3 : dirfail = 0 \/ dirfail > 3 \/ j < dirfail}}

\* dns_class = dns_provider[dns_key]: no name dns_provider is bound
LookupOverride(dns_key, providers) == [exc |-> "NameError", value |-> "none"]

ConfigWritesMainFirst(d, nsub, wfail) ==
    {<<"main", d, 0>>}
    \cup {<<"sub", d, k>> : k \in {j \in 1..nsub : wfail = 0 \/ j < wfail}}

\* the files the generation block writes before it ends or raises
ConfigWrites(d, nsub, wfail) ==
    {<<"sub", d, k>> : k \in {j \in 1..nsub : wfail = 0 \/ j < wfail}}
    \cup (IF wfail = 0 THEN {<<"main", d, 0>>} ELSE {})

Iteration(exc, oc, files, op, dns, wr, app) ==
    [exc |-> exc, outcome |-> oc, files |-> files, certop |-> op, dns |-> dns,
     written |-> wr, appended |-> app]

\* lines 310-327
GenerateWhenCertificateChanged(d, c, wfail, gen, files, op, dns) ==
    LET wr == CertWrites(d, op, 0)
        regenerate == gen \/ op \in {"issue", "renew"}
    IN  IF ~regenerate
        THEN Iteration("none", "ok", files, op, dns, wr, FALSE)
        ELSE IF wfail # 0
        THEN Iteration("OSError", "error", files, op, dns,
                       wr \cup ConfigWrites(d, c.nsub, wfail), FALSE)
        ELSE Iteration("none", "ok", files, op, dns,
                       wr \cup ConfigWrites(d, c.nsub, 0), TRUE)

GenerateAppendsBeforeWriting(d, c, wfail, gen, files, op, dns) ==
    LET wr == CertWrites(d, op, 0)
    IN  IF ~gen
        THEN Iteration("none", "ok", files, op, dns, wr, FALSE)
        ELSE IF wfail # 0
        THEN Iteration("OSError", "error", files, op, dns,
                       wr \cup ConfigWrites(d, c.nsub, wfail), TRUE)
        ELSE Iteration("none", "ok", files, op, dns,
                       wr \cup ConfigWrites(d, c.nsub, 0), TRUE)

Generate(d, c, wfail, gen, files, op, dns) ==
    LET wr == CertWrites(d, op, 0)
    IN  IF ~gen
        THEN Iteration("none", "ok", files, op, dns, wr, FALSE)
        ELSE IF wfail # 0
        THEN Iteration("OSError", "error", files, op, dns,
                       wr \cup ConfigWrites(d, c.nsub, wfail), FALSE)
        ELSE Iteration("none", "ok", files, op, dns,
                       wr \cup ConfigWrites(d, c.nsub, 0), TRUE)

MissingEmailFallsThrough(d, c, wfail, gen, st) ==
    Generate(d, c, wfail, gen, st, "none", "none")

\* lines 290-293: ssl enabled without an email, `continue`
MissingEmail(d, c, wfail, gen, st) ==
    Iteration("none", "noemail", st, "none", "none", {}, FALSE)

\* lines 284-308, then the generation block
Certificates(d, c, dirfail, acme, wfile, wfail, st, clock, gen, providers, default) ==
    IF c.ssl = "off"
    THEN Generate(d, c, wfail, gen, st, "none", "none")
    ELSE IF c.ssl = "noemail"
    THEN MissingEmail(d, c, wfail, gen, st)
    ELSE IF c.dns # "none" /\ c.dns \in providers
    THEN Iteration(LookupOverride(c.dns, providers).exc, "error", st, "none", "none", {}, FALSE)
    ELSE IF c.dns # "none"
    THEN Iteration("none", "nodns", st, "none", "none", {}, FALSE)
    ELSE LET g == get_certs(st, clock, IF dirfail = 4 THEN "SystemExit" ELSE "none", acme, wfile)
         IN  IF g.exc # "none"
             THEN Iteration(g.exc, "error", g.files, g.op, default, {}, FALSE)
             ELSE IF ~g.ret
             THEN Iteration("none", "certfail", g.files, g.op, default,
                            CertWrites(d, g.op, wfile), FALSE)
             ELSE Generate(d, c, wfail, gen, g.files, g.op, default)

\* the outcomes of the writes of get_certs: they are reached only by a call
\* made with the default provider whose create_dir and exchange returned
WritesReached(c, dirfail, acme) ==
    IF c.ssl = "email" /\ c.dns = "none" /\ dirfail = 0 /\ acme = "ok"
    THEN 0..3
    ELSE {0}

\* lines 275-330
DomainBody(d, c, dirfail, acme, wfile, wfail, st, clock, gen, providers, default) ==
    IF dirfail \in 1..3
    THEN Iteration("SystemExit", "error", st, "none", "none", {}, FALSE)
    ELSE Certificates(d, c, dirfail, acme, wfile, wfail, st, clock, gen, providers, default)

ProcessDomain ==
    /\ pc = "domains"
    /\ UNCHANGED <<checked, cert_call, rendered>>
    /\ idx < Len(DomainOrder)
    /\ \E c \in DomainCfgs, dirfail \in 0..4, acme \in AcmeOutcomes,
          wfail \in 0..(MaxSub + 1) :
       \E wfile \in WritesReached(c, dirfail, acme) :
          LET d == DomainOrder[idx + 1]
              r == DomainBody(d, c, dirfail, acme, wfile, wfail, disk[d], now,
                              generate_config, dns_providers, default_dns)
          IN  /\ wfail <= c.nsub + 1
              /\ cfg' = [cfg EXCEPT ![d] = c]
              /\ attempts' = [attempts EXCEPT ![d] = @ + 1]
              /\ outcome' = [outcome EXCEPT ![d] = r.outcome]
              /\ certop' = [certop EXCEPT ![d] = r.certop]
              /\ dns_used' = [dns_used EXCEPT ![d] = r.dns]
              /\ disk' = [disk EXCEPT ![d] = r.files]
              /\ dirs' = dirs \cup PreparedDirs(d, dirfail)
              /\ written' = written \cup r.written
              /\ domain_names' = IF r.appended THEN Append(domain_names, d) ELSE domain_names
              /\ idx' = idx + 1
              /\ IF r.exc = "none" \/ DomainCatches(r.exc)
                 THEN /\ pc' = IF idx + 1 < Len(DomainOrder) THEN "domains" ELSE "aggregate"
                      /\ UNCHANGED exit_status
                 ELSE Exit(Uncaught(r.exc))
    /\ UNCHANGED <<forced, now, old_hash, new_hash, generate_config,
                   renew_certificates, config_dns, dns_providers, default_dns,
                   aggregate, validation, restart>>

(***************************************************************************)
(* Documents of python-nginx.  A document is the sequence of its top-level *)
(* directives; a directive has a kind, a name, a value (the pieces the     *)
(* code formats or joins it from), the clock reading it carries, and the   *)
(* directives it holds.                                                    *)
(***************************************************************************)
\* the clock reading of a directive that carries none
NoTime == -1

Directive(kind, name, value, at, children) ==
    [kind |-> kind, name |-> name, value |-> value, at |-> at, children |-> children]

Key(name, value) == Directive("key", name, value, NoTime, <<>>)
Comment(c) == Directive("comment", "", c.text, c.at, <<>>)
Server(children) == Directive("server", "", <<>>, NoTime, children)
Location(path, children) == Directive("location", path, <<>>, NoTime, children)
Map(name, children) == Directive("map", name, <<>>, NoTime, children)

\* a comment written out in the code
Literal(parts) == [text |-> parts, at |-> NoTime]

generation_comment_untimed(what, subject, clock) ==
    [text |-> <<what, " for ">> \o subject \o <<", generated by revprox at ">>, at |-> NoTime]

\* generation_comment(what, subject): the text ends with datetime.now() as
\* strftime("%H:%M on %B %d, %Y") prints it; clock is that reading
generation_comment(what, subject, clock) ==
    [text |-> <<what, " for ">> \o subject \o <<", generated by revprox at ">>, at |-> clock]

\* str(nginx_path / domain / 'main.cfg')
MainCfgPath(domain) == <<"nginx/", domain, "/main.cfg">>

\* rp_config of lines 333-347
rp_config(names, clock) ==
    <<Comment(generation_comment("Main configuration", <<"NGINX">>, clock)),
      Comment(Literal(<<"This file needs to be included in your NGINX configuration.">>)),
      Map("$http_upgrade $connection_upgrade",
          <<Key("default", <<"upgrade">>), Key("''", <<"close">>)>>)>>
    \o [i \in 1..Len(names) |-> Key("include", MainCfgPath(names[i]))]

\* str(cert_dir / 'certificate.crt'), str(subdomain_dir / '{}.cfg'.format(subdomain))
CertDir(domain) == <<"certs/", domain>>
SubdomainDir(domain) == <<"nginx/", domain, "/subdomains">>
CertificateCrt(cert_dir) == cert_dir \o <<"/certificate.crt">>
CertificateKey(cert_dir) == cert_dir \o <<"/certificate.key">>
SubdomainCfg(subdomain_dir, subdomain) == subdomain_dir \o <<"/", subdomain, ".cfg">>

\* the directives both functions add under `if use_ssl:`
SslDirectives(cert_dir) ==
    <<Comment(Literal(<<"use_ssl = True">>)),
      Key("listen", <<"443 ssl">>),
      Key("ssl", <<"on">>),
      Key("ssl_certificate", CertificateCrt(cert_dir)),
      Key("ssl_certificate_key", CertificateKey(cert_dir))>>

OthersAlwaysSsl(domain, forward_others, use_ssl, cert_dir) ==
    Server(<<Comment(Literal(<<"Forward remaining (sub)domains to ", forward_others>>)),
             Key("server_name", <<domain, " *.", domain>>),
             Key("return", <<"302 ", forward_others, "$request_uri">>),
             Key("listen", <<"80">>)>>
           \o SslDirectives(cert_dir))

\* the server block `others` of lines 120-135
Others(domain, forward_others, use_ssl, cert_dir) ==
    Server(<<Comment(Literal(<<"Forward remaining (sub)domains to ", forward_others>>)),
             Key("server_name", <<domain, " *.", domain>>),
             Key("return", <<"302 ", forward_others, "$request_uri">>),
             Key("listen", <<"80">>)>>
           \o (IF use_ssl THEN SslDirectives(cert_dir) ELSE <<>>))

create_nginx_config_for_domain(domain, subdomains, subdomain_dir, forward_others, use_ssl, cert_dir, clock) ==
    <<Comment(generation_comment("NGINX config", <<domain>>, clock))>>
    \o [i \in 1..Len(subdomains) |-> Key("include", SubdomainCfg(subdomain_dir, subdomains[i]))]
    \o (IF forward_others # None
        THEN <<Others(domain, forward_others, use_ssl, cert_dir)>>
        ELSE <<>>)

\* lines 319-322: forward_others of the caller
ForwardOthers(forward_cfg) ==
    IF forward_cfg # "absent" /\ forward_cfg # "" THEN forward_cfg ELSE None

create_nginx_config_for_subdomain(domain, subdomain, destination, use_ssl, force_ssl, cert_dir, clock) ==
    LET full_domain == <<subdomain, ".", domain>>
        non_ssl == Server(<<Comment(Literal(<<"force_ssl = True">>)),
                            Key("listen", <<"80">>),
                            Key("server_name", full_domain),
                            Key("return", <<"301 https://$host$request_uri">>)>>)
        proto == IF use_ssl THEN "https" ELSE "http"
        main == Server(
            (IF ~force_ssl
             THEN <<Comment(Literal(<<"force_ssl = False">>)), Key("listen", <<"80">>)>>
             ELSE <<>>)
            \o (IF use_ssl THEN SslDirectives(cert_dir) ELSE <<>>)
            \o <<Key("server_name", full_domain),
                 Location("/",
                     <<Key("proxy_set_header", <<"Host $host">>),
                       Key("proxy_set_header", <<"X-Real-IP $remote_addr">>),
                       Key("proxy_set_header", <<"X-Forwarded-For $proxy_add_x_forwarded_for">>),
                       Key("proxy_set_header", <<"X-Forwarded-Proto $scheme">>),
                       Key("proxy_set_header", <<"Upgrade $http_upgrade">>),
                       Key("proxy_set_header", <<"Connection $connection_upgrade">>),
                       Key("proxy_pass", <<destination>>),
                       Key("proxy_read_timeout", <<"90">>),
                       Key("proxy_redirect", <<destination, " ", proto, "://">> \o full_domain)>>)>>)
    IN  <<Comment(generation_comment("NGINX config", full_domain, clock))>>
        \o (IF use_ssl /\ force_ssl THEN <<non_ssl>> ELSE <<>>)
        \o <<main>>

(***************************************************************************)
(* nginx/revprox.cfg, written when generate_config is set.                 *)
(***************************************************************************)
Aggregate ==
    /\ pc = "aggregate"
    /\ UNCHANGED <<checked, cert_call>>
    /\ IF generate_config
       THEN \E dumpf \in {"ok", "OSError"} :
               IF dumpf = "ok"
               THEN /\ aggregate' = domain_names
                    /\ rendered' = RenderedCall(
                                       Call("rp_config",
                                            RenderArgs("", "", "", domain_names, None, FALSE, FALSE),
                                            "absent", now, rp_config(domain_names, now)),
                                       rendered)
                    /\ written' = written \cup {<<"revprox", "", 0>>}
                    /\ pc' = "validate"
                    /\ UNCHANGED exit_status
               ELSE /\ Exit(Uncaught(dumpf))
                    /\ UNCHANGED <<aggregate, written, rendered>>
       ELSE /\ pc' = "validate"
            /\ UNCHANGED <<exit_status, aggregate, written, rendered>>
    /\ UNCHANGED <<forced, now, disk, old_hash, new_hash, generate_config,
                   renew_certificates, config_dns, dns_providers, default_dns, cfg,
                   idx, domain_names, attempts, outcome, certop, dns_used, dirs,
                   validation, restart>>

(***************************************************************************)
(* nginx -t, when an nginx executable is found.                            *)
(***************************************************************************)
ValidateGoesOn ==
    /\ pc = "validate"
    /\ UNCHANGED <<checked, cert_call, rendered>>
    /\ \E tool \in {"notool", "valid", "invalid"} :
          /\ validation' = IF tool = "invalid" THEN "invalid" ELSE "passed"
          /\ pc' = "restart" /\ UNCHANGED exit_status
    /\ UNCHANGED <<forced, now, disk, old_hash, new_hash, generate_config,
                   renew_certificates, config_dns, dns_providers, default_dns, cfg,
                   idx, domain_names, attempts, outcome, certop, dns_used, dirs,
                   written, aggregate, restart>>

Validate ==
    /\ pc = "validate"
    /\ UNCHANGED <<checked, cert_call, rendered>>
    /\ \E tool \in {"notool", "valid", "invalid"} :
          /\ validation' = IF tool = "invalid" THEN "invalid" ELSE "passed"
          /\ IF tool = "invalid"
             THEN Exit("fatal")
             ELSE pc' = "restart" /\ UNCHANGED exit_status
    /\ UNCHANGED <<forced, now, disk, old_hash, new_hash, generate_config,
                   renew_certificates, config_dns, dns_providers, default_dns, cfg,
                   idx, domain_names, attempts, outcome, certop, dns_used, dirs,
                   written, aggregate, restart>>

(***************************************************************************)
(* service nginx restart, when generate_config or renew_certificates.      *)
(***************************************************************************)
\* `if generate_config or renew_certificates:`
MustRestart(generate, renew) == generate \/ renew

Restart ==
    /\ pc = "restart"
    /\ UNCHANGED <<checked, cert_call, rendered>>
    /\ IF MustRestart(generate_config, renew_certificates)
       THEN \E service \in {"none", "ok", "failed"} :
               restart' = IF service = "none" THEN "noservice" ELSE service
       ELSE UNCHANGED restart
    /\ Exit("done")
    /\ UNCHANGED <<forced, now, disk, old_hash, new_hash, generate_config,
                   renew_certificates, config_dns, dns_providers, default_dns, cfg,
                   idx, domain_names, attempts, outcome, certop, dns_used, dirs,
                   written, aggregate, validation>>

Next ==
    \/ CheckStorage
    \/ Fetch
    \/ Scan
    \/ LoadConfig
    \/ Providers
    \/ DefaultDns
    \/ ProcessDomain
    \/ Aggregate
    \/ Validate
    \/ Restart

Spec == Init /\ [][Next]_vars

(***************************************************************************)
(* should_renew_cert on its own: calls on a certificate path, between      *)
(* which the clock advances and the certificate file is replaced or        *)
(* removed from outside.                                                   *)
(***************************************************************************)
\* days the clock runs through
MaxDay == 2

EmptyDir == [crt |-> NoFile, key |-> NoFile, acct |-> NoFile]
ProbedFiles == {NoFile} \cup ((StartDay + TwoWeeks - 1)..(StartDay + TwoWeeks + MaxDay + 1))

InitRenew ==
    /\ pc = "check"
    /\ forced = FALSE
    /\ now = StartDay
    /\ disk \in {[c \in CertDirs |-> IF c = Orphan THEN [EmptyDir EXCEPT !.crt = t] ELSE EmptyDir] :
                    t \in ProbedFiles}
    /\ Fresh

\* should_renew_cert(cert_file): what it returns is what the call reads
CheckRenewal ==
    /\ pc = "check"
    /\ \E c \in CertDirs :
          checked' = [path |-> c, file |-> disk[c].crt, clock |-> now,
                      result |-> should_renew_cert(disk[c].crt, now)]
    /\ UNCHANGED <<pc, exit_status, forced, now, disk, old_hash, new_hash, generate_config,
                   renew_certificates, config_dns, dns_providers, default_dns, cfg, idx,
                   domain_names, attempts, outcome, certop, dns_used, dirs, written,
                   aggregate, validation, restart, cert_call, rendered>>

\* the certificate file is replaced or removed between two calls
RotateCert ==
    /\ pc = "check"
    /\ \E t \in ProbedFiles : disk' = [disk EXCEPT ![Orphan].crt = t]
    /\ UNCHANGED <<pc, exit_status, forced, now, old_hash, new_hash, generate_config,
                   renew_certificates, config_dns, dns_providers, default_dns, cfg, idx,
                   domain_names, attempts, outcome, certop, dns_used, dirs, written,
                   aggregate, validation, restart, checked, cert_call, rendered>>

\* datetime.now() moves on between two calls
Tick ==
    /\ pc = "check"
    /\ now < StartDay + MaxDay
    /\ now' = now + 1
    /\ UNCHANGED <<pc, exit_status, forced, disk, old_hash, new_hash, generate_config,
                   renew_certificates, config_dns, dns_providers, default_dns, cfg, idx,
                   domain_names, attempts, outcome, certop, dns_used, dirs, written,
                   aggregate, validation, restart, checked, cert_call, rendered>>

NextRenew ==
    \/ CheckRenewal
    \/ RotateCert
    \/ Tick

SpecRenew == InitRenew /\ [][NextRenew]_vars

(***************************************************************************)
(* get_certs called on its own, on a certificate directory holding any     *)
(* combination of the three files, as a failed write, a restore or a       *)
(* manual clean-up leaves it.                                              *)
(***************************************************************************)
FoundFiles ==
    [crt : {NoFile} \cup StoredNotAfter, key : {NoFile, OldKey}, acct : {NoFile, OldKey}]

InitCerts ==
    /\ pc = "certs"
    /\ forced = FALSE
    /\ now = StartDay
    /\ disk \in {[c \in CertDirs |-> IF c = DomainOrder[1] THEN st ELSE EmptyDir] :
                    st \in FoundFiles}
    /\ Fresh

\* get_certs(domain, cert_dir, dns_class, email): the call, the client it
\* creates and the files it leaves
CallGetCerts ==
    /\ pc = "certs"
    /\ \E d \in {DomainOrder[1]}, mkdir \in {"none", "SystemExit"}, acme \in AcmeOutcomes,
          wfile \in 0..3 :
          LET g == get_certs(disk[d], now, mkdir, acme, wfile)
              created == g.op \notin {"none", "noop"}
          IN  /\ cert_call' = [dir |-> d, files |-> disk[d], clock |-> now, result |-> g,
                               client |-> [created |-> created,
                                           account_key |-> IF created
                                                           THEN account_key_read(disk[d])
                                                           ELSE NoFile]]
              /\ disk' = [disk EXCEPT ![d] = g.files]
              /\ written' = written \cup CertWrites(d, g.op, wfile)
    /\ UNCHANGED <<pc, exit_status, forced, now, old_hash, new_hash, generate_config,
                   renew_certificates, config_dns, dns_providers, default_dns, cfg, idx,
                   domain_names, attempts, outcome, certop, dns_used, dirs,
                   aggregate, validation, restart, checked, rendered>>

\* one of the three files is removed between two calls
LoseFile ==
    /\ pc = "certs"
    /\ \E f \in {"crt", "key", "acct"} :
          /\ disk[DomainOrder[1]][f] # NoFile
          /\ disk' = [disk EXCEPT ![DomainOrder[1]][f] = NoFile]
    /\ UNCHANGED <<pc, exit_status, forced, now, old_hash, new_hash, generate_config,
                   renew_certificates, config_dns, dns_providers, default_dns, cfg, idx,
                   domain_names, attempts, outcome, certop, dns_used, dirs, written,
                   aggregate, validation, restart, checked, cert_call, rendered>>

\* datetime.now() moves on between two calls
CertsTick ==
    /\ pc = "certs"
    /\ now < StartDay + MaxDay
    /\ now' = now + 1
    /\ UNCHANGED <<pc, exit_status, forced, disk, old_hash, new_hash, generate_config,
                   renew_certificates, config_dns, dns_providers, default_dns, cfg, idx,
                   domain_names, attempts, outcome, certop, dns_used, dirs, written,
                   aggregate, validation, restart, checked, cert_call, rendered>>

NextCerts ==
    \/ CallGetCerts
    \/ LoseFile
    \/ CertsTick

SpecCerts == InitCerts /\ [][NextCerts]_vars

(***************************************************************************)
(* The two create_nginx_config_for_* functions called on their own, with   *)
(* the clock moving between calls.  A call for a domain goes through the   *)
(* caller's reading of cfg['forward_others'].                              *)
(***************************************************************************)
SubLabels == {"app", "www"}
SubdomainLists == {<<>>, <<"app">>, <<"www">>, <<"app", "www">>, <<"www", "app">>}
Destinations == {"http://127.0.0.1:8080"}
ForwardSettings == {"absent", "", "https://parking.example.com"}

InitRender ==
    /\ pc = "render"
    /\ forced = FALSE
    /\ now = StartDay
    /\ disk = [c \in CertDirs |-> EmptyDir]
    /\ Fresh

RenderSubdomain ==
    /\ pc = "render"
    /\ \E domain \in {DomainOrder[1]}, subdomain \in SubLabels, destination \in Destinations,
          use_ssl \in BOOLEAN, force_ssl \in BOOLEAN :
          rendered' = RenderedCall(
              Call("subdomain",
                   RenderArgs(domain, subdomain, destination, <<>>, None, use_ssl, force_ssl),
                   "absent", now,
                   create_nginx_config_for_subdomain(domain, subdomain, destination, use_ssl,
                                                     force_ssl, CertDir(domain), now)),
              rendered)
    /\ UNCHANGED <<pc, exit_status, forced, now, disk, old_hash, new_hash, generate_config,
                   renew_certificates, config_dns, dns_providers, default_dns, cfg, idx,
                   domain_names, attempts, outcome, certop, dns_used, dirs, written,
                   aggregate, validation, restart, checked, cert_call>>

RenderDomain ==
    /\ pc = "render"
    /\ \E domain \in {DomainOrder[1]}, subdomains \in SubdomainLists,
          forward_cfg \in ForwardSettings, use_ssl \in BOOLEAN :
          LET forward_others == ForwardOthers(forward_cfg)
          IN  rendered' = RenderedCall(
                  Call("domain",
                       RenderArgs(domain, "", "", subdomains, forward_others, use_ssl, FALSE),
                       forward_cfg, now,
                       create_nginx_config_for_domain(domain, subdomains, SubdomainDir(domain),
                                                      forward_others, use_ssl, CertDir(domain),
                                                      now)),
                  rendered)
    /\ UNCHANGED <<pc, exit_status, forced, now, disk, old_hash, new_hash, generate_config,
                   renew_certificates, config_dns, dns_providers, default_dns, cfg, idx,
                   domain_names, attempts, outcome, certop, dns_used, dirs, written,
                   aggregate, validation, restart, checked, cert_call>>

\* datetime.now(), as generation_comment prints it, moves on between two calls
RenderTick ==
    /\ pc = "render"
    /\ now < StartDay + MaxDay
    /\ now' = now + 1
    /\ UNCHANGED <<pc, exit_status, forced, disk, old_hash, new_hash, generate_config,
                   renew_certificates, config_dns, dns_providers, default_dns, cfg, idx,
                   domain_names, attempts, outcome, certop, dns_used, dirs, written,
                   aggregate, validation, restart, checked, cert_call, rendered>>

NextRender ==
    \/ RenderSubdomain
    \/ RenderDomain
    \/ RenderTick

SpecRender == InitRender /\ [][NextRender]_vars

(***************************************************************************)
(* Claims.                                                                 *)
(***************************************************************************)

\* C4: a call of should_renew_cert returns true if and only if the certificate
\* file exists when the call is made and its not-after is less than two weeks
\* after the clock's reading at the call; in particular it returns false for a
\* missing file and for a certificate with exactly two weeks or more left.
C4_RenewIffLessThanTwoWeeksLeft ==
    [][checked' # checked =>
          (checked'.result <=>
              (/\ disk[checked'.path].crt # NoFile
               /\ disk[checked'.path].crt - now < TwoWeeks))]_vars

\* a call on a rotated certificate with thirteen days left, after the clock
\* moved, answered true
C4_Witness ==
    /\ checked.path = Orphan
    /\ checked.result
    /\ checked.clock > StartDay
    /\ checked.file - checked.clock = TwoWeeks - 1


(***************************************************************************)
(* Vocabulary of the claims about a whole run.                             *)
(***************************************************************************)
Range(seq) == {seq[i] : i \in 1..Len(seq)}

\* the loop is over: the script is at or past the top-level aggregate
LoopOver == pc \in {"aggregate", "validate", "restart"} \/ (pc = "exit" /\ idx = Len(DomainOrder))

\* the generated files of a domain, and its certificate files
ConfigFiles(d) == {<<"sub", d, k>> : k \in 1..MaxSub} \cup {<<"main", d, 0>>}
CertFiles(d) == {<<"crt", d, 0>>, <<"key", d, 0>>, <<"acct", d, 0>>}
RevproxCfg == <<"revprox", "", 0>>

\* the three create_dir calls of the loop body returned for d
Prepared(d) == {DomainDirs(d)[i] : i \in 1..3} \subseteq dirs

\* no certificate under certs/ has less than two weeks left
NoCertNearExpiry == \A c \in CertDirs : disk[c].crt = NoFile \/ disk[c].crt - now >= TwoWeeks

\* C1: in a run that reaches the domain loop every domain is attempted exactly
\* once, in order: whatever an iteration raises (while preparing directories, in
\* the certificate step, while writing the documents), the iteration ends in the
\* next iteration or, after the last domain, in the top-level aggregate step,
\* and never in the end of the run.
C1_EveryDomainAttemptedOnce ==
    [][pc = "domains" =>
          LET d == DomainOrder[idx + 1]
          IN  /\ attempts[d] = 0
              /\ attempts' = [attempts EXCEPT ![d] = 1]
              /\ \A i \in 1..Len(DomainOrder) : attempts[DomainOrder[i]] = (IF i <= idx THEN 1 ELSE 0)
              /\ pc' = (IF idx + 1 < Len(DomainOrder) THEN "domains" ELSE "aggregate")
              /\ exit_status' = "running"]_vars

\* the first domain failed on create_dir, the second in the ACME exchange, and
\* the run went on to validation and restart
C1_Witness ==
    /\ exit_status = "done"
    /\ validation = "passed"
    /\ outcome[DomainOrder[1]] = "error" /\ ~Prepared(DomainOrder[1])
    /\ outcome[DomainOrder[2]] = "certfail"
    /\ \A d \in Domains : attempts[d] = 1

\* C2: without the force flag, with the revision unchanged by the fetch and no
\* stored certificate less than two weeks from expiry, the scan ends the run
\* with exit code 0: config.yml has not been read, no directory was prepared,
\* no file written, and neither validation nor restart has run.
C2_NoopRun ==
    [][(pc = "scan" /\ ~forced /\ new_hash = old_hash /\ NoCertNearExpiry) =>
          /\ pc' = "exit"
          /\ ExitCode(exit_status') = 0
          /\ exit_status' = "exit0"
          /\ disk' = disk
          /\ dirs' = {}
          /\ written' = {}
          /\ \A p \in ProviderIds : config_dns'[p] = "unread"
          /\ \A d \in Domains : cfg'[d] = UnreadCfg /\ attempts'[d] = 0
          /\ validation' = "pending"
          /\ restart' = "pending"]_vars

\* a no-op run over a certificate with exactly two weeks left
C2_Witness ==
    /\ exit_status = "exit0"
    /\ ~forced /\ new_hash = old_hash
    /\ disk[DomainOrder[1]].crt = now + TwoWeeks
    /\ written = {} /\ dirs = {}

\* C3: with the force flag, generate_config is true from the fetch on whether
\* or not the revision changed and whatever the stored certificates; the run
\* never takes the no-op exit, the renewal scan is skipped
\* (renew_certificates stays false), every domain whose iteration completes has
\* its subdomain files and main.cfg written and is in domain_names, and once
\* the script is past the aggregate step revprox.cfg has been written.
C3_ForceAlwaysRegenerates ==
    forced =>
        /\ (pc \notin {"storage", "fetch", "exit"} \/ exit_status = "done") => generate_config
        /\ exit_status # "exit0"
        /\ ~renew_certificates
        /\ \A d \in Domains :
              outcome[d] = "ok" =>
                  /\ ConfigFiles(d) \subseteq written
                  /\ d \in Range(domain_names)
        /\ (pc \in {"validate", "restart"} \/ validation # "pending") =>
              /\ RevproxCfg \in written
              /\ aggregate = domain_names

\* a forced run on an unchanged revision with a certificate near expiry under
\* certs/ regenerated the first domain and ran to the end
C3_Witness ==
    /\ forced /\ new_hash = old_hash
    /\ disk[Orphan].crt # NoFile /\ disk[Orphan].crt - now < TwoWeeks
    /\ exit_status = "done"
    /\ outcome[DomainOrder[1]] = "ok"
    /\ RevproxCfg \in written

\* C5: in a regenerating run a domain with ssl enabled and no email has no
\* certificate operation, none of its certificate or config files written, and
\* no include line in revprox.cfg; every domain is still attempted, and a
\* domain whose iteration completes is included in revprox.cfg.
C5_MissingEmailExcluded ==
    generate_config =>
        /\ \A d \in Domains :
              cfg[d].ssl = "noemail" =>
                  /\ certop[d] = "none"
                  /\ outcome[d] # "ok"
                  /\ written \cap (ConfigFiles(d) \cup CertFiles(d)) = {}
                  /\ {<<"sub", d, k>> : k \in 1..(MaxSub + 1)} \cap written = {}
                  /\ d \notin Range(domain_names)
                  /\ d \notin Range(aggregate)
        /\ LoopOver => \A e \in Domains : attempts[e] = 1
        /\ RevproxCfg \in written =>
              \A e \in Domains : (outcome[e] = "ok" <=> e \in Range(aggregate))

\* the first domain lacks its email, the second was generated and is the only
\* include of revprox.cfg
C5_Witness ==
    /\ generate_config
    /\ cfg[DomainOrder[1]].ssl = "noemail"
    /\ outcome[DomainOrder[2]] = "ok"
    /\ RevproxCfg \in written
    /\ aggregate = <<DomainOrder[2]>>

\* get_certs was called for d
CertificateManagerInvoked(d) == dns_used[d] # "none"

\* config['dns'] has been read
ProvidersRead == \A p \in ProviderIds : config_dns[p] # "unread"

\* the run ended before the first iteration of the domain loop
AbortedBeforeDomains == pc = "exit" /\ idx = 0

\* the provider identifiers in sorted order
SortedIds == <<"aws", "default">>
FirstSorted(S) == SortedIds[CHOOSE i \in 1..Len(SortedIds) :
                                /\ SortedIds[i] \in S
                                /\ \A j \in 1..(i - 1) : SortedIds[j] \notin S]

\* C6: when an SSL-enabled domain names a dns override that is not among the
\* constructed providers, that domain has no certificate operation and no file
\* written, and get_certs is still called for every other SSL-enabled domain
\* with an email whose directories were prepared and whose provider (the
\* default, or a constructed override) resolves.
C6_UnresolvedOverrideSkipsOneDomain ==
    LoopOver =>
        \A d \in Domains :
            (cfg[d].ssl = "email" /\ cfg[d].dns # "none" /\ cfg[d].dns \notin dns_providers) =>
                /\ certop[d] = "none"
                /\ ~CertificateManagerInvoked(d)
                /\ written \cap (ConfigFiles(d) \cup CertFiles(d)) = {}
                /\ \A e \in Domains \ {d} :
                      (/\ cfg[e].ssl = "email"
                       /\ Prepared(e)
                       /\ (cfg[e].dns = "none" \/ cfg[e].dns \in dns_providers))
                      => CertificateManagerInvoked(e)

\* C7: for an SSL-enabled domain with an email whose directories were prepared,
\* get_certs is called with the named override when the override is among the
\* constructed providers, and with the default provider when no override is
\* named.
C7_ResolvedOverrideReachesGetCerts ==
    \A d \in Domains :
        (attempts[d] = 1 /\ cfg[d].ssl = "email" /\ Prepared(d)) =>
            /\ cfg[d].dns = "none" => dns_used[d] = default_dns
            /\ (cfg[d].dns # "none" /\ cfg[d].dns \in dns_providers) =>
                  /\ dns_used[d] = cfg[d].dns
                  /\ CertificateManagerInvoked(d)

\* C8: when a provider of config['dns'] names an unknown type, the run ends
\* with a fatal error at provider resolution: no domain is attempted, nothing
\* is written, and neither validation nor restart runs.
C8_UnknownTypeIsFatal ==
    (\E p \in ProviderIds : config_dns[p] = "unknowntype") =>
        /\ AbortedBeforeDomains
        /\ exit_status = "fatal"
        /\ \A d \in Domains : attempts[d] = 0
        /\ written = {} /\ dirs = {}
        /\ validation = "pending" /\ restart = "pending"

\* C9: once the providers are resolved, the run has ended with a non-zero exit
\* before the domain loop if and only if no declared provider was constructed.
C9_AbortIffNoProviderConstructed ==
    (ProvidersRead /\ pc # "default") =>
        ((AbortedBeforeDomains /\ ExitCode(exit_status) # 0) <=> dns_providers = {})

\* C10: when no constructed provider is named "default" and at least one
\* provider was constructed, default_dns is the first constructed identifier in
\* sorted order and the run goes on to the domain loop.
C10_FirstSortedProviderIsDefault ==
    (ProvidersRead /\ pc # "default" /\ "default" \notin dns_providers /\ dns_providers # {}) =>
        /\ default_dns = FirstSorted(dns_providers)
        /\ ~AbortedBeforeDomains

(***************************************************************************)
(* Vocabulary of the claims about one call of get_certs: the step that     *)
(* makes the call, the directory it is made on, and the state of that      *)
(* directory before and after.                                             *)
(***************************************************************************)
GetCertsStep == cert_call' # cert_call
FilesBefore == disk[cert_call'.dir]
FilesAfter == disk'[cert_call'.dir]
Healthy(cert_file, clock) == cert_file # NoFile /\ cert_file - clock >= TwoWeeks
ReturnedSuccessAtOnce ==
    /\ cert_call'.result.ret
    /\ ~cert_call'.client.created
    /\ FilesAfter = FilesBefore
    /\ written' = written

\* C11 as stated: a call of get_certs that finds certificate.crt with two
\* weeks or more left, and whose create_dir returned, returns True without
\* creating a client and without writing any of the three files.
C11_HealthyCertificateReturnsAtOnce ==
    [][(GetCertsStep /\ Healthy(FilesBefore.crt, now) /\ cert_call'.result.exc = "none")
          => ReturnedSuccessAtOnce]_vars

\* C11: a call of get_certs that finds certificate.crt, certificate.key and
\* account.key all present, the certificate with two weeks or more left,
\* creates no client and writes none of the three files, and returns True
\* when its create_dir returned.
C11_CompleteHealthyRecordReturnsAtOnce ==
    [][(GetCertsStep /\ AllThreeExist(FilesBefore) /\ Healthy(FilesBefore.crt, now))
          => /\ ~cert_call'.client.created
             /\ FilesAfter = FilesBefore
             /\ written' = written
             /\ cert_call'.result.exc = "none" => cert_call'.result.ret]_vars

\* a call found all three files and a certificate with exactly two weeks
\* left, and returned True without a client
C11_Witness ==
    /\ cert_call.dir # ""
    /\ AllThreeExist(cert_call.files)
    /\ cert_call.files.crt - cert_call.clock = TwoWeeks
    /\ cert_call.result.ret
    /\ cert_call.result.op = "noop"
    /\ ~cert_call.client.created

\* C12: a call of get_certs that renews hands the content of account.key to
\* the client and leaves account.key as it was, while certificate.crt and
\* certificate.key are written anew; a call that issues hands no account key
\* to the client and writes all three files, account.key with the key the
\* client created.
C12_AccountKeyKeptOnRenewalWrittenOnIssue ==
    [][GetCertsStep =>
          LET d == cert_call'.dir
              op == cert_call'.result.op
          IN  /\ op = "renew" =>
                    /\ FilesBefore.acct # NoFile
                    /\ cert_call'.client.account_key = FilesBefore.acct
                    /\ FilesAfter.acct = FilesBefore.acct
                    /\ <<"acct", d, 0>> \in written' => <<"acct", d, 0>> \in written
                    /\ {<<"crt", d, 0>>, <<"key", d, 0>>} \subseteq written'
                    /\ FilesAfter.crt = now + IssueDays
                    /\ FilesAfter.key = NewKey
              /\ op = "issue" =>
                    /\ cert_call'.client.account_key = NoFile
                    /\ CertFiles(d) \subseteq written'
                    /\ FilesAfter = [crt |-> now + IssueDays, key |-> NewKey, acct |-> NewKey]]_vars

\* a renewal of a certificate that came within two weeks of its end as the
\* clock moved, with the stored account key
C12_Witness ==
    /\ cert_call.result.op = "renew"
    /\ cert_call.clock > StartDay
    /\ cert_call.files.crt - cert_call.clock = TwoWeeks - 1
    /\ cert_call.client.account_key = OldKey
    /\ cert_call.result.files.acct = OldKey
    /\ cert_call.result.files.key = NewKey

(***************************************************************************)
(* Vocabulary of the claims about documents.                               *)
(***************************************************************************)
\* the positions of a sequence of directives that hold directive x
Positions(seq, x) == {i \in 1..Len(seq) : seq[i] = x}
OfKind(seq, kind) == SelectSeq(seq, LAMBDA x : x.kind = kind)
Named(seq, name) == SelectSeq(seq, LAMBDA x : x.kind = "key" /\ x.name = name)
UpgradeMap ==
    Map("$http_upgrade $connection_upgrade",
        <<Key("default", <<"upgrade">>), Key("''", <<"close">>)>>)

\* C13: once revprox.cfg is written, the document written has an include of
\* a domain's main.cfg if and only if the domain's iteration of this run ended
\* normally with main.cfg and every subdomain file written; it has no other
\* include, no include twice, and exactly one map, the one from $http_upgrade
\* to $connection_upgrade.
C13_IncludesAreTheGeneratedDomains ==
    RevproxCfg \in written =>
        /\ rendered.fn = "rp_config"
        /\ \A d \in Domains :
              (Positions(rendered.doc, Key("include", MainCfgPath(d))) # {})
                  <=> (outcome[d] = "ok" /\ ConfigFiles(d) \subseteq written)
        /\ \A d \in Domains :
              Cardinality(Positions(rendered.doc, Key("include", MainCfgPath(d)))) <= 1
        /\ Len(Named(rendered.doc, "include"))
              = Cardinality({d \in Domains : Positions(rendered.doc, Key("include", MainCfgPath(d))) # {}})
        /\ Len(OfKind(rendered.doc, "map")) = 1
        /\ Cardinality(Positions(rendered.doc, UpgradeMap)) = 1

\* revprox.cfg was written with an include for the second domain only: the
\* first one wrote its subdomain file and then failed on main.cfg
C13_Witness ==
    /\ RevproxCfg \in written
    /\ <<"sub", DomainOrder[1], 1>> \in written
    /\ <<"main", DomainOrder[1], 0>> \notin written
    /\ Named(rendered.doc, "include") = <<Key("include", MainCfgPath(DomainOrder[2]))>>

\* `service nginx restart` was run
RestartAttempted == restart \in {"ok", "failed"}

\* C14 as stated: a restart is attempted only in a run that regenerates or in
\* which get_certs renewed the certificate of some domain.
C14_RestartOnlyAfterRegenerationOrRenewal ==
    RestartAttempted => (generate_config \/ \E d \in Domains : certop[d] = "renew")

\* C14: a restart is attempted only in a run that regenerates or whose scan
\* set renew_certificates, and the scan sets renew_certificates only when it
\* finds, in any directory under certs/, a certificate with less than two weeks
\* left; what the run then renews plays no part.
C14_RestartOnlyAfterRegenerationOrScanHit ==
    [][/\ RestartAttempted' => (generate_config' \/ renew_certificates')
       /\ (renew_certificates' /\ ~renew_certificates)
             => (pc = "scan" /\ ~generate_config /\ ~NoCertNearExpiry)]_vars

\* a run that does not regenerate restarted nginx although it renewed nothing:
\* the only certificate near its end lies in a directory of no configured domain
C14_Witness ==
    /\ restart = "ok"
    /\ ~generate_config
    /\ renew_certificates
    /\ disk[Orphan].crt # NoFile /\ disk[Orphan].crt - now < TwoWeeks
    /\ \A d \in Domains : certop[d] \notin {"renew", "issue"}

\* C15: nginx -t runs only after the last iteration of the domain loop and,
\* in a regenerating run, after revprox.cfg is written; the restart block is
\* entered only after the validation passed; when nginx -t reports an invalid
\* configuration the run ends with a non-zero exit code, the restart block is
\* never entered, and the validation step itself changes no file.
C15_ValidationBetweenGenerationAndRestart ==
    [][/\ validation' # "pending" =>
             /\ idx' = Len(DomainOrder)
             /\ \A d \in Domains : attempts'[d] = 1
             /\ generate_config' => RevproxCfg \in written'
       /\ restart' # "pending" => validation' = "passed"
       /\ validation' = "invalid" =>
             /\ pc' = "exit"
             /\ ExitCode(exit_status') # 0
             /\ restart' = "pending"
       /\ pc = "validate" =>
             /\ written' = written
             /\ disk' = disk
             /\ rendered' = rendered]_vars

\* a regenerating run wrote a domain's files and revprox.cfg, nginx -t
\* rejected them, and the run ended with the files in place and no restart
C15_Witness ==
    /\ validation = "invalid"
    /\ pc = "exit"
    /\ exit_status = "fatal"
    /\ restart = "pending"
    /\ RevproxCfg \in written
    /\ ConfigFiles(DomainOrder[1]) \subseteq written
    /\ rendered.doc = rp_config(<<DomainOrder[1]>>, now)

\* C16 as stated: a run that has ended with a fatal error has written no
\* certificate file and no configuration file.
C16_FatalRunWroteNothing ==
    (pc = "exit" /\ exit_status = "fatal") => written = {}

\* C16: a run that has ended with a fatal error other than the one of a failed
\* validation ended before the domain loop: it has written no certificate file
\* and no configuration file, created no directory, and called get_certs for
\* no domain.  The fatal error of a failed validation comes after the writes.
C16_FatalBeforeTheLoopWroteNothing ==
    (pc = "exit" /\ exit_status = "fatal" /\ validation # "invalid") =>
        /\ AbortedBeforeDomains
        /\ written = {}
        /\ dirs = {}
        /\ \A d \in Domains : attempts[d] = 0 /\ certop[d] = "none"

\* a regenerating run whose providers all failed to construct ended with the
\* fatal error of the provider selection, nothing written
C16_Witness ==
    /\ pc = "exit"
    /\ exit_status = "fatal"
    /\ generate_config
    /\ ProvidersRead
    /\ dns_providers = {}
    /\ written = {}

SameArguments ==
    /\ rendered.prev.fn # "none"
    /\ rendered.fn = rendered.prev.fn
    /\ rendered.args = rendered.prev.args

C20_DomainDocument ==
    rendered.fn = "domain" =>
        LET a == rendered.args
            doc == rendered.doc
            target == rendered.forward_cfg
            configured == target \notin {"absent", ""}
            includes == Named(doc, "include")
            servers == OfKind(doc, "server")
        IN  /\ includes = [i \in 1..Len(a.subdomains) |->
                             Key("include", <<"nginx/", a.domain, "/subdomains", "/",
                                              a.subdomains[i], ".cfg">>)]
            /\ Len(servers) = (IF configured THEN 1 ELSE 0)
            /\ Len(doc) = 1 + Len(includes) + Len(servers)
            /\ \A i \in 2..(1 + Len(includes)) : doc[i].kind = "key"
            /\ configured =>
                  LET block == servers[1].children
                  IN  /\ Named(block, "server_name")
                            = <<Key("server_name", <<a.domain, " *.", a.domain>>)>>
                      /\ Named(block, "return")
                            = <<Key("return", <<"302 ", target, "$request_uri">>)>>
                      /\ Named(block, "listen")
                            = (IF a.use_ssl
                               THEN <<Key("listen", <<"80">>), Key("listen", <<"443 ssl">>)>>
                               ELSE <<Key("listen", <<"80">>)>>)
                      /\ Named(block, "ssl_certificate")
                            = (IF a.use_ssl
                               THEN <<Key("ssl_certificate",
                                          <<"certs/", a.domain, "/certificate.crt">>)>>
                               ELSE <<>>)
                      /\ Named(block, "ssl_certificate_key")
                            = (IF a.use_ssl
                               THEN <<Key("ssl_certificate_key",
                                          <<"certs/", a.domain, "/certificate.key">>)>>
                               ELSE <<>>)
            /\ (configured /\ a.subdomains = <<>>) => Tail(doc) = servers

\* a domain with two subdomains, a forward target and ssl was rendered: two
\* includes in the order given, then the block with both listeners
C20_Witness ==
    /\ rendered.fn = "domain"
    /\ rendered.args.subdomains = <<"www", "app">>
    /\ rendered.forward_cfg = "https://parking.example.com"
    /\ rendered.args.use_ssl
    /\ Len(rendered.doc) = 4
    /\ rendered.doc[2] = Key("include", <<"nginx/", DomainOrder[1], "/subdomains", "/", "www", ".cfg">>)
    /\ rendered.doc[4].kind = "server"

\* the run is past the fetch, was not forced and found the revision unchanged
RenewOnlyRun == pc \notin {"storage", "fetch"} /\ ~forced /\ new_hash = old_hash

\* C21: in a run that was not forced and found the revision unchanged,
\* generate_config is false at every step, also after get_certs renewed a
\* certificate: no subdomain file, no main.cfg and no revprox.cfg is written
\* and no document is built, only certificate files are written; a run that
\* passes the domain loop goes on to nginx -t, and one that ends normally has
\* passed the validation and entered the restart block.
C21_RenewOnlyRunWritesNoConfiguration ==
    RenewOnlyRun =>
        /\ ~generate_config
        /\ written \subseteq UNION {CertFiles(d) : d \in Domains}
        /\ domain_names = <<>> /\ aggregate = <<>>
        /\ rendered = NotRendered
        /\ exit_status = "done" =>
              /\ renew_certificates
              /\ validation = "passed"
              /\ restart # "pending"

\* a run that was not forced and found no new revision renewed the
\* certificate of the first domain, wrote it, passed nginx -t and restarted
\* nginx, with no configuration file written
C21_Witness ==
    /\ RenewOnlyRun
    /\ exit_status = "done"
    /\ certop[DomainOrder[1]] = "renew"
    /\ <<"crt", DomainOrder[1], 0>> \in written
    /\ disk[DomainOrder[1]].crt = now + IssueDays
    /\ ConfigFiles(DomainOrder[1]) \cap written = {}
    /\ RevproxCfg \notin written
    /\ validation = "passed"
    /\ restart = "ok"

\* C22: a call of get_certs whose exchange raised returns False and leaves
\* certificate.crt, certificate.key and account.key as they were, none of
\* them written; a call that returns True after creating a client has written
\* certificate.crt and certificate.key with what the client returned.
C22_FailedExchangeLeavesFilesAlone ==
    [][GetCertsStep =>
          LET d == cert_call'.dir
              g == cert_call'.result
          IN  /\ g.op \in {"issue_failed", "renew_failed"} =>
                    /\ ~g.ret
                    /\ FilesAfter = FilesBefore
                    /\ written' = written
              /\ (g.ret /\ cert_call'.client.created) =>
                    /\ {<<"crt", d, 0>>, <<"key", d, 0>>} \subseteq written'
                    /\ FilesAfter.crt = now + IssueDays
                    /\ FilesAfter.key = NewKey]_vars

\* a renewal failed in the exchange: the certificate, with thirteen days
\* left, the key and the account key are as the call found them
C22_Witness ==
    /\ cert_call.result.op = "renew_failed"
    /\ ~cert_call.result.ret
    /\ cert_call.files.crt - cert_call.clock = TwoWeeks - 1
    /\ cert_call.result.files = cert_call.files
    /\ disk[cert_call.dir] = cert_call.files
    /\ written = {}

\* C23: a call of get_certs whose create_dir returned renews, handing the
\* stored account key to the client, exactly when the three files all exist
\* and the certificate has less than two weeks left; it does nothing exactly
\* when the three files all exist and the certificate has two weeks or more
\* left; in every other case, a certificate with two weeks or more left
\* included, it requests a new certificate with no account key handed to the
\* client, and on success writes certificate.crt, certificate.key and
\* account.key, the latter with the client's new key.
C23_ActionChosenFromTheThreeFiles ==
    [][(GetCertsStep /\ cert_call'.result.exc = "none") =>
          LET d == cert_call'.dir
              g == cert_call'.result
              all_three == /\ FilesBefore.crt # NoFile
                           /\ FilesBefore.key # NoFile
                           /\ FilesBefore.acct # NoFile
              healthy == Healthy(FilesBefore.crt, now)
              renewal == g.op \in {"renew", "renew_failed", "renew_partial"}
              issuance == g.op \in {"issue", "issue_failed", "issue_partial"}
          IN  /\ renewal <=> (all_three /\ ~healthy)
              /\ renewal => cert_call'.client.account_key = FilesBefore.acct
              /\ g.op = "noop" <=> (all_three /\ healthy)
              /\ issuance <=> ~all_three
              /\ issuance => (cert_call'.client.created
                              /\ cert_call'.client.account_key = NoFile)
              /\ g.op = "issue" =>
                    /\ CertFiles(d) \subseteq written'
                    /\ FilesAfter = [crt |-> now + IssueDays, key |-> NewKey, acct |-> NewKey]]_vars

\* a call found a certificate with two weeks left and an account key but no
\* certificate.key: it requested a new certificate and replaced all three
C23_Witness ==
    /\ cert_call.result.op = "issue"
    /\ cert_call.files.crt - cert_call.clock = TwoWeeks
    /\ cert_call.files.key = NoFile
    /\ cert_call.files.acct = OldKey
    /\ cert_call.client.account_key = NoFile
    /\ cert_call.result.files = [crt |-> cert_call.clock + IssueDays, key |-> NewKey, acct |-> NewKey]

====
